---- MODULE Spec2Model ----
(***************************************************************************)
(* Car-rental reservation and rental lifecycle (service layer over the     *)
(* document store).  Reservations and rentals are documents; every request *)
(* handler is a coroutine whose awaits on the store are the points where   *)
(* other handlers may run.                                                 *)
(***************************************************************************)
EXTENDS Integers, Sequences, FiniteSets, TLC

\* ---------------------------------------------------------------- bounds
MaxRes == 2
MaxRental == 2
MaxDay == 2
MaxProc == 2
MaxHistory == 6
MaxCount == 30
MaxPriceDay == 3

\* ------------------------------------------------------------ data sets
Vehicles == {"v1", "v2"}
Customers == {"c1"}
Tokens == {"t1", "t2"}
RentalIds == 1..MaxRental
Days == 0..MaxDay
Procs == 1..MaxProc

\* ReservationStatus, VehicleStatus, RentalStatus enumerations
ReservationStatus == {"pending", "approved", "picked_up", "cancelled", "completed"}
VehicleStatus == {"available", "reserved", "picked_up", "out_of_service"}
RentalStatus == {"active", "completed"}

None == [none |-> TRUE]

\* daily rate of each vehicle document (price_per_day)
VehicleRate == [v \in Vehicles |-> IF v = "v1" THEN 45 ELSE 30]

\* daily rate of each insurance tier document and, as first entered in the
\* catalog, of each add-on document (price_per_day)
InsuranceTiers == {"basic", "premium"}
InsuranceRate == [t \in InsuranceTiers |-> IF t = "basic" THEN 18 ELSE 30]
AddOns == {"gps", "child_seat"}
AddOnRate == [a \in AddOns |-> IF a = "gps" THEN 5 ELSE 8]

\* insurance tier and add-on list carried by every create request drawn on
RequestInsurance == "basic"
RequestAddOns == <<"gps">>

VARIABLES reservations, rentals, vehicles, procs, indexes, calc, catalog, outbox, issued

vars == <<reservations, rentals, vehicles, procs, indexes, calc, catalog, outbox, issued>>

\* outbox: the messages handed to the exchange, in order of publication
\* issued: the reservation identifiers handed out so far (uuid4 never
\* gives the same identifier twice)
\* RabbitMQManager.publish_event: one message with the event type and data
publish_event(event_type, data) ==
    Append(outbox, [event_type |-> event_type, data |-> data])

\* identifiers the reservations collection has room for
ResIds == DOMAIN reservations

\* ------------------------------------------------- stored date encoding
\* A date field of a stored reservation is either the ISO string written by
\* create_reservation (model_dump(mode="json")) or the datetime written by
\* update_reservation (pickup at time.min, return at time.max).
StrDate(d) == [kind |-> "str", day |-> d]
DateTime(d) == [kind |-> "datetime", day |-> d]
ReqDate(d) == [kind |-> "date", day |-> d]

\* datetime.combine(x, t): defined for date and datetime, TypeError for str
CanCombine(x) == x.kind \in {"date", "datetime"}

\* (return - pickup).days: date-date or datetime-datetime, TypeError otherwise
CanSubtract(p, r) == p.kind = r.kind /\ p.kind \in {"date", "datetime"}

calculate_rental_days(p, r) == r.day - p.day

\* ------------------------------------------------------- pricing helpers
\* a selector that gives the loyalty tier one reservation late
determine_pricing_strategy_Late(reservation_count) ==
    IF reservation_count = 0 THEN "first_order"
    ELSE IF reservation_count % 5 = 0 THEN "loyalty"
    ELSE "daily"

determine_pricing_strategy(reservation_count) ==
    IF reservation_count = 0 THEN "first_order"
    ELSE IF (reservation_count + 1) % 5 = 0 THEN "loyalty"
    ELSE "daily"

\* PricingStrategy.__init__: the tier chosen from len(customer.reservations)
PricingStrategy(reservations_count) ==
    IF reservations_count = 0 THEN "first_order"
    ELSE IF (reservations_count + 1) % 5 = 0 THEN "loyalty"
    ELSE "daily"

DiscountPct(strategy) ==
    IF strategy = "first_order" THEN 15
    ELSE IF strategy = "loyalty" THEN 10
    ELSE 0

RECURSIVE SumSeq(_)
SumSeq(q) == IF q = <<>> THEN 0 ELSE Head(q) + SumSeq(Tail(q))

\* a base price that leaves the add-ons out
calculate_base_price_NoAddOns(vehicle_price_per_day, insurance_price_per_day, addon_prices_per_day, rental_days) ==
    (vehicle_price_per_day + insurance_price_per_day) * rental_days

\* (vehicle + insurance + sum(addons)) x days, in currency units
calculate_base_price(vehicle_price_per_day, insurance_price_per_day, addon_prices_per_day, rental_days) ==
    (vehicle_price_per_day + insurance_price_per_day + SumSeq(addon_prices_per_day))
        * rental_days

\* base - base x pct, in hundredths of the currency unit (pct in percent);
\* on whole-unit rates the binary64 result is the double nearest this value
apply_discount(base_price, pct) == base_price * 100 - base_price * pct

\* total in hundredths of the currency unit
calculate_total_price(vehicle_price_per_day, insurance_price_per_day, addon_prices_per_day, pickup_date, return_date, strategy_type) ==
    LET rental_days == calculate_rental_days(pickup_date, return_date)
        base_price == calculate_base_price(vehicle_price_per_day,
                          insurance_price_per_day, addon_prices_per_day, rental_days)
    IN IF strategy_type = "first_order" THEN apply_discount(base_price, 15)
       ELSE IF strategy_type = "loyalty" THEN apply_discount(base_price, 10)
       ELSE base_price * 100

\* `clock = clock or SystemClock()`, then clock.today(): the injected
\* clock's day, or the wall-clock day when none was passed
FakeClock(day) == [today |-> day]

ClockToday(clock, wall) == IF clock = None THEN wall ELSE clock.today

\* DailyStrategy / FirstOrderStrategy / LoyaltyStrategy .calculate: the
\* outcome is the price in hundredths or the ValueError raised
Strategy_calculate(strategy, vehicle_rate, insurance_rate, addon_rates, pickup_date, return_date, clock, wall) ==
    IF pickup_date > return_date
    THEN [ok |-> FALSE, error |-> "return_before_pickup", price |-> 0]
    ELSE IF pickup_date < ClockToday(clock, wall)
    THEN [ok |-> FALSE, error |-> "pickup_in_past", price |-> 0]
    ELSE LET rental_days == return_date - pickup_date
             subtotal == vehicle_rate * rental_days + insurance_rate * rental_days
                             + SumSeq(addon_rates) * rental_days
         IN [ok |-> TRUE, error |-> "",
             price |-> subtotal * 100 - subtotal * DiscountPct(strategy)]

\* PricingStrategy.calculate_price: delegates to the strategy and passes no
\* clock
PricingStrategy_calculate_price(strategy, vehicle_rate, insurance_rate, addon_rates, pickup_date, return_date, wall) ==
    Strategy_calculate(strategy, vehicle_rate, insurance_rate, addon_rates,
                       pickup_date, return_date, None, wall)

\* --------------------------------------------------------- store queries
\* find_add_ons_by_ids, turned into the documents embedded in a reservation:
\* each add-on with the price the catalog holds now
find_add_ons_by_ids(ids) ==
    [i \in DOMAIN ids |-> [id |-> ids[i], price_per_day |-> catalog[ids[i]]]]

\* addon_prices = [doc.price_per_day for doc in add_on_documents]
AddOnPrices(add_on_documents) ==
    [i \in DOMAIN add_on_documents |-> add_on_documents[i].price_per_day]

Stored == {r \in ResIds : reservations[r] # None}

\* a query that returns no more than the three oldest documents
find_reservations_by_customer_Capped(c) ==
    {r \in Stored : reservations[r].customer_id = c /\ r <= 3}

find_reservations_by_customer(c) ==
    {r \in Stored : reservations[r].customer_id = c}

\* The $lte / $gte comparison against a datetime operand matches only
\* fields that hold a datetime; a field holding a string never matches.
MatchesLte(field, day) == field.kind = "datetime" /\ field.day <= day
MatchesGte(field, day) == field.kind = "datetime" /\ field.day >= day

AvailabilityStatuses == {"pending", "confirmed"}

ConflictsWith(r, v, p, rt, exclude) ==
    /\ reservations[r].vehicle_id = v
    /\ reservations[r].status \in AvailabilityStatuses
    /\ MatchesLte(reservations[r].pickup_date, rt)
    /\ MatchesGte(reservations[r].return_date, p)
    /\ r # exclude

\* TRUE when no stored reservation matches the overlap query
check_vehicle_availability(v, p, rt, exclude) ==
    ~ \E r \in Stored : ConflictsWith(r, v, p, rt, exclude)

ExtensionStatuses == {"pending", "confirmed", "approved"}

check_rental_extension_conflict(v, cur, new, exclude) ==
    ~ \E r \in Stored :
        /\ reservations[r].vehicle_id = v
        /\ reservations[r].status \in ExtensionStatuses
        /\ MatchesLte(reservations[r].pickup_date, new)
        /\ MatchesGte(reservations[r].return_date, cur)
        /\ r # exclude

RentalSet == 1..Len(rentals)

\* find_one returns the first matching document in insertion order
FirstOf(S) == IF S = {} THEN 0 ELSE CHOOSE x \in S : \A y \in S : x <= y

\* a token lookup that never finds the stored rental
find_rental_by_pickup_token_Blind(t) == 0

find_rental_by_pickup_token(t) ==
    FirstOf({k \in RentalSet : rentals[k].pickup_token = t})

find_rental_by_reservation(r) ==
    FirstOf({k \in RentalSet : rentals[k].reservation_id = r})

\* uuid4 identifiers are fresh: the next unused slot
FreshRes == FirstOf(ResIds \ issued)

\* The rentals collection "requires" a unique index on pickup_token, which
\* no code of the repository creates: a deployment has it or has it not.
UniqueIndexes == {"pickup_token"}

\* insert_one raises DuplicateKeyError when a unique index is violated
DuplicateKey(doc) ==
    /\ "pickup_token" \in indexes
    /\ \E k \in RentalSet : rentals[k].pickup_token = doc.pickup_token

\* ---------------------------------------------------- request coroutines
\* One record per in-flight create_reservation, pickup_vehicle or
\* return_vehicle request:
\* its position (pc), its request fields, the values it has read so far and,
\* at pc = "done", the response it sends (ok, msg, id).
Idle ==
    [pc |-> "idle", op |-> "-", r |-> 0, tok |-> "-", v |-> "-", c |-> "-",
     pd |-> 0, rd |-> 0, price |-> 0, k |-> 0, odo |-> 0, dmg |-> 0,
     add_ons |-> <<>>, charges |-> None, id |-> 0, ok |-> FALSE, msg |-> ""]

Respond(rec, ok, msg, id) == [rec EXCEPT !.pc = "done", !.ok = ok, !.msg = msg, !.id = id]

InFlight(pcs) == {p \in Procs : procs[p].pc \in pcs}

AllIdle == \A p \in Procs : procs[p].pc = "idle"

\* an empty store with room for n reservations, no request in flight
EmptyStore(n) ==
    /\ reservations = [r \in 1..n |-> None]
    /\ rentals = <<>>
    /\ vehicles = [v \in Vehicles |-> "available"]
    /\ procs = [p \in Procs |-> Idle]
    /\ indexes \in SUBSET UniqueIndexes
    /\ catalog = AddOnRate
    /\ outbox = <<>>
    /\ issued = {}

\* calc holds the argument and results of a function evaluated on its own
Init == EmptyStore(MaxRes) /\ calc = None

\* the response has been sent: the coroutine is gone
Ack(p) ==
    /\ procs[p].pc = "done"
    /\ procs' = [procs EXCEPT ![p] = Idle]
    /\ UNCHANGED <<reservations, rentals, vehicles, indexes, calc, catalog, outbox, issued>>

\* ---------------------------------------- ReservationService.create_reservation
CreatePcs == {"cr_check", "cr_price", "cr_insert"}

\* Request validation: pickup_date not in the past (today is day 0) and
\* return_date >= pickup_date.
StartCreate(p, c, v, pd, rd) ==
    /\ procs[p].pc = "idle"
    /\ pd <= rd
    /\ Cardinality(issued) + Cardinality(InFlight(CreatePcs)) < Cardinality(ResIds)
    /\ procs' = [procs EXCEPT ![p] =
          [Idle EXCEPT !.pc = "cr_check", !.op = "create", !.c = c, !.v = v,
                       !.pd = pd, !.rd = rd]]
    /\ UNCHANGED <<reservations, rentals, vehicles, indexes, calc, catalog, outbox, issued>>

\* await check_vehicle_availability(...)
CreateCheck(p) ==
    /\ procs[p].pc = "cr_check"
    /\ procs' = [procs EXCEPT ![p] =
          IF check_vehicle_availability(procs[p].v, procs[p].pd, procs[p].rd, 0)
          THEN [procs[p] EXCEPT !.pc = "cr_price"]
          ELSE Respond(procs[p], FALSE, "not_available", 0)]
    /\ UNCHANGED <<reservations, rentals, vehicles, indexes, calc, catalog, outbox, issued>>

\* await _calculate_total_price(...): counts the customer's reservations
CreatePrice(p) ==
    /\ procs[p].pc = "cr_price"
    /\ LET count == Cardinality(find_reservations_by_customer(procs[p].c))
           total == calculate_total_price(VehicleRate[procs[p].v],
                        InsuranceRate[RequestInsurance],
                        AddOnPrices(find_add_ons_by_ids(RequestAddOns)),
                        ReqDate(procs[p].pd), ReqDate(procs[p].rd),
                        determine_pricing_strategy(count))
       IN procs' = [procs EXCEPT ![p].pc = "cr_insert", ![p].price = total,
                                 ![p].add_ons = find_add_ons_by_ids(RequestAddOns)]
    /\ UNCHANGED <<reservations, rentals, vehicles, indexes, calc, catalog, outbox, issued>>

NewReservation(c, v, pd, rd, total, add_on_documents) ==
    [status |-> "pending", customer_id |-> c, vehicle_id |-> v,
     pickup_date |-> StrDate(pd), return_date |-> StrDate(rd),
     insurance_tier_id |-> RequestInsurance, add_ons |-> add_on_documents,
     rental_days |-> calculate_rental_days(ReqDate(pd), ReqDate(rd)),
     total_price |-> total,
     invoice |-> [status |-> "pending", total_price |-> total]]

\* await db_manager.create_reservation(reservation_doc)
CreateInsert(p) ==
    /\ procs[p].pc = "cr_insert"
    /\ reservations' = [reservations EXCEPT ![FreshRes] =
           NewReservation(procs[p].c, procs[p].v, procs[p].pd, procs[p].rd,
                          procs[p].price, procs[p].add_ons)]
    /\ procs' = [procs EXCEPT ![p] = Respond([procs[p] EXCEPT !.r = FreshRes], TRUE, "", FreshRes)]
    /\ issued' = issued \cup {FreshRes}
    /\ UNCHANGED <<rentals, vehicles, indexes, calc, catalog, outbox>>

\* ------------------------------------------- RentalService.pickup_vehicle
PickupPcs == {"pk_lookup", "pk_reservation", "pk_validate", "pk_insert", "pk_update"}

\* A request that can still insert a rental starts only while the store has
\* room for it; one repeating a stored token can always start.
StartPickup(p, r, tok) ==
    /\ procs[p].pc = "idle"
    /\ \/ find_rental_by_pickup_token(tok) # 0
       \/ Len(rentals) + Cardinality(InFlight(PickupPcs)) < MaxRental
    /\ procs' = [procs EXCEPT ![p] =
          [Idle EXCEPT !.pc = "pk_lookup", !.op = "pickup", !.r = r, !.tok = tok]]
    /\ UNCHANGED <<reservations, rentals, vehicles, indexes, calc, catalog, outbox, issued>>

\* a replay that answers only while the reservation is still approved
PickupLookup_Checked(p) ==
    /\ procs[p].pc = "pk_lookup"
    /\ LET existing == find_rental_by_pickup_token(procs[p].tok)
           doc == reservations[procs[p].r]
       IN procs' = [procs EXCEPT ![p] =
             IF existing # 0 /\ doc # None /\ doc.status = "approved"
             THEN Respond(procs[p], TRUE, "idempotent", existing)
             ELSE IF existing # 0
             THEN Respond(procs[p], FALSE, "not_approved", 0)
             ELSE [procs[p] EXCEPT !.pc = "pk_reservation"]]
    /\ UNCHANGED <<reservations, rentals, vehicles, indexes, calc, catalog, outbox, issued>>

\* await find_rental_by_pickup_token(request.pickup_token)
PickupLookup(p) ==
    /\ procs[p].pc = "pk_lookup"
    /\ LET existing == find_rental_by_pickup_token(procs[p].tok)
       IN procs' = [procs EXCEPT ![p] =
             IF existing # 0
             THEN Respond(procs[p], TRUE, "idempotent", existing)
             ELSE [procs[p] EXCEPT !.pc = "pk_reservation"]]
    /\ UNCHANGED <<reservations, rentals, vehicles, indexes, calc, catalog, outbox, issued>>

\* the status a reservation must have to be picked up
\* a status check that also lets a pending reservation through
PickupAllowed_Lax(status) == status \in {"approved", "pending"}

PickupAllowed(status) == status = "approved"

\* await find_reservation_by_id(...), then the status check
PickupReservation(p) ==
    /\ procs[p].pc = "pk_reservation"
    /\ LET doc == reservations[procs[p].r]
       IN procs' = [procs EXCEPT ![p] =
             IF doc = None
             THEN Respond(procs[p], FALSE, "not_found", 0)
             ELSE IF ~PickupAllowed(doc.status)
             THEN Respond(procs[p], FALSE, "not_approved", 0)
             ELSE [procs[p] EXCEPT !.pc = "pk_validate",
                                   !.v = doc.vehicle_id, !.c = doc.customer_id]]
    /\ UNCHANGED <<reservations, rentals, vehicles, indexes, calc, catalog, outbox, issued>>

\* await find_rental_by_reservation(...); the agent and vehicle lookups and
\* the maintenance check follow (no VehicleStatus value is "maintenance_due")
PickupValidate(p) ==
    /\ procs[p].pc = "pk_validate"
    /\ procs' = [procs EXCEPT ![p] =
          IF find_rental_by_reservation(procs[p].r) # 0
          THEN Respond(procs[p], FALSE, "already_picked_up", 0)
          ELSE IF vehicles[procs[p].v] = "maintenance_due"
          THEN Respond(procs[p], FALSE, "maintenance_due", 0)
          ELSE [procs[p] EXCEPT !.pc = "pk_insert"]]
    /\ UNCHANGED <<reservations, rentals, vehicles, indexes, calc, catalog, outbox, issued>>

\* readings recorded at pickup (one set serves every pickup request):
\* odometer in km, fuel level in hundredths of a tank, timestamp in seconds
PickupReadings == [odometer |-> 0, fuel_level |-> 100, timestamp |-> 0]

NewRental(r, v, c, tok) ==
    [status |-> "active", reservation_id |-> r, vehicle_id |-> v,
     customer_id |-> c, pickup_token |-> tok,
     pickup_readings |-> PickupReadings,
     return_readings |-> None, charges |-> None]

\* await db_manager.create_rental(rental_doc): insert_one
create_rental(doc) == Append(rentals, doc)

\* A DuplicateKeyError is re-raised and ends the request.
PickupInsert(p) ==
    /\ procs[p].pc = "pk_insert"
    /\ LET doc == NewRental(procs[p].r, procs[p].v, procs[p].c, procs[p].tok)
       IN IF DuplicateKey(doc)
          THEN /\ rentals' = rentals
               /\ procs' = [procs EXCEPT ![p] = Respond(procs[p], FALSE, "duplicate_key", 0)]
          ELSE /\ rentals' = create_rental(doc)
               /\ procs' = [procs EXCEPT ![p].pc = "pk_update", ![p].id = Len(rentals) + 1]
    /\ UNCHANGED <<reservations, vehicles, indexes, calc, catalog, outbox, issued>>

\* status written to the reservation after the rental insert
PickupReservationStatus == "completed"

\* await update_reservation(reservation_id, {"status": ...}); the vehicle
\* update that follows reads request.vehicle_id, which the request model
\* does not have: the AttributeError is caught and logged, nothing is written
PickupUpdate(p) ==
    /\ procs[p].pc = "pk_update"
    /\ reservations' =
         IF reservations[procs[p].r] = None THEN reservations
         ELSE [reservations EXCEPT ![procs[p].r].status = PickupReservationStatus]
    /\ procs' = [procs EXCEPT ![p] = Respond(procs[p], TRUE, "", procs[p].id)]
    /\ UNCHANGED <<rentals, vehicles, indexes, calc, catalog, outbox, issued>>

\* A store call may raise (connection lost, server error).  create_rental
\* raising is logged and re-raised: the request fails, nothing is stored.
PickupInsertFails(p) ==
    /\ procs[p].pc = "pk_insert"
    /\ procs' = [procs EXCEPT ![p] = Respond(procs[p], FALSE, "store_error", 0)]
    /\ UNCHANGED <<reservations, rentals, vehicles, indexes, calc, catalog, outbox, issued>>

\* update_reservation raising is logged and swallowed: the handler goes on
\* to the vehicle update and the success response
PickupUpdateFails(p) ==
    /\ procs[p].pc = "pk_update"
    /\ procs' = [procs EXCEPT ![p] = Respond(procs[p], TRUE, "", procs[p].id)]
    /\ UNCHANGED <<reservations, rentals, vehicles, indexes, calc, catalog, outbox, issued>>

\* --------------------------------------- ReservationService.update_reservation
\* A field the request leaves out is "-" (status, vehicle) or Absent (dates).
\* The request validator rejects return_date < pickup_date when both are given.
Absent == -1

\* value the handler works with for a date: the request's or the stored one
FinalDate(req, stored) == IF req # Absent THEN ReqDate(req) ELSE stored

\* the date as update_reservation of the store writes it
StoredDate(req, stored) == IF req # Absent THEN DateTime(req) ELSE stored

\* a recalculation that leaves the invoice as it was
SyncInvoice_Stale(invoice, total) == invoice

\* update_data["invoice.total_price"] = total_price
SyncInvoice(invoice, total) == [invoice EXCEPT !.total_price = total]

UpdateBlockedStatuses == {"completed", "cancelled"}

\* an update that turns the stored date into a date before it subtracts
UpdateAccepted_Converting(r, st, v, pd, rd) ==
    LET doc == reservations[r]
        fp == FinalDate(pd, doc.pickup_date)
        fr == FinalDate(rd, doc.return_date)
        recalc == v # "-" \/ pd # Absent \/ rd # Absent
    IN /\ doc # None
       /\ doc.status \notin UpdateBlockedStatuses
       /\ v # "-" => /\ CanCombine(fp) /\ CanCombine(fr)
                     /\ check_vehicle_availability(v, fp.day, fr.day, r)
       /\ st # "-" \/ recalc

\* TRUE when the handler reaches the store write
UpdateAccepted(r, st, v, pd, rd) ==
    LET doc == reservations[r]
        fp == FinalDate(pd, doc.pickup_date)
        fr == FinalDate(rd, doc.return_date)
        recalc == v # "-" \/ pd # Absent \/ rd # Absent
    IN /\ doc # None
       /\ doc.status \notin UpdateBlockedStatuses
       /\ v # "-" => /\ CanCombine(fp) /\ CanCombine(fr)
                     /\ check_vehicle_availability(v, fp.day, fr.day, r)
       /\ recalc => CanSubtract(fp, fr)
       /\ st # "-" \/ recalc

UpdateReservation(r, st, v, pd, rd) ==
    /\ (pd # Absent /\ rd # Absent) => pd <= rd
    /\ LET doc == reservations[r]
           fp == FinalDate(pd, doc.pickup_date)
           fr == FinalDate(rd, doc.return_date)
           fv == IF v # "-" THEN v ELSE doc.vehicle_id
           recalc == v # "-" \/ pd # Absent \/ rd # Absent
           count == Cardinality(find_reservations_by_customer(doc.customer_id))
           final_add_on_ids == [i \in DOMAIN doc.add_ons |-> doc.add_ons[i].id]
           add_on_documents == find_add_ons_by_ids(final_add_on_ids)
           days == calculate_rental_days(fp, fr)
           total == calculate_total_price(VehicleRate[fv],
                        InsuranceRate[doc.insurance_tier_id],
                        AddOnPrices(add_on_documents),
                        fp, fr, determine_pricing_strategy(count))
       IN IF ~UpdateAccepted(r, st, v, pd, rd)
          THEN UNCHANGED reservations
          ELSE reservations' = [reservations EXCEPT ![r] =
                  [doc EXCEPT
                     !.status = IF st # "-" THEN st ELSE doc.status,
                     !.vehicle_id = fv,
                     !.pickup_date = StoredDate(pd, doc.pickup_date),
                     !.return_date = StoredDate(rd, doc.return_date),
                     !.add_ons = IF recalc THEN add_on_documents ELSE doc.add_ons,
                     !.rental_days = IF recalc THEN days ELSE doc.rental_days,
                     !.total_price = IF recalc THEN total ELSE doc.total_price,
                     !.invoice = IF recalc THEN SyncInvoice(doc.invoice, total)
                                 ELSE doc.invoice]]
    /\ UNCHANGED <<rentals, vehicles, procs, indexes, calc, catalog, outbox, issued>>

\* -------------------------------------- ReservationService.delete_reservation
\* delete_one({"_id": reservation_id}): the document goes, whatever its
\* status and whatever refers to it; a missing one is reported, not an error
delete_reservation(r) ==
    /\ reservations' = [reservations EXCEPT ![r] = None]
    /\ UNCHANGED <<rentals, vehicles, procs, indexes, calc, catalog, outbox, issued>>

\* ------------------------------------------------ Agent.approve_reservation
\* The agent's decision applied to the reservation: approved when the
\* vehicle can be handed over, cancelled otherwise, whatever the status was.
\* Agent.check_vehicle_availability: FALSE for out_of_service and picked_up
AgentVehicleAvailable(v) == vehicles[v] \notin {"out_of_service", "picked_up"}

approve_reservation(r) ==
    /\ reservations[r] # None
    /\ reservations' = [reservations EXCEPT ![r].status =
           IF AgentVehicleAvailable(reservations[r].vehicle_id)
           THEN "approved" ELSE "cancelled"]
    /\ UNCHANGED <<rentals, vehicles, procs, indexes, calc, catalog, outbox, issued>>

\* -------------------------------------------- RentalService.return_vehicle
\* A request names the rental and carries the odometer reading (km) and the
\* agent's damage charge (currency units); the vehicle comes back at the
\* pickup instant with the tank as it was at pickup.
ReturnPcs == {"rt_lookup", "rt_reservation", "rt_update"}

\* the return requests drawn on: <<odometer reading, damage charge>>
ReturnRequests == {<<1, 0>>, <<2, 20>>}

StartReturn(p, k, odo, dmg) ==
    /\ procs[p].pc = "idle"
    /\ procs' = [procs EXCEPT ![p] =
          [Idle EXCEPT !.pc = "rt_lookup", !.op = "return", !.k = k,
                       !.odo = odo, !.dmg = dmg]]
    /\ UNCHANGED <<reservations, rentals, vehicles, indexes, calc, catalog, outbox, issued>>

\* await find_rental_by_id(rental_id), then the status check
ReturnLookup(p) ==
    /\ procs[p].pc = "rt_lookup"
    /\ procs' = [procs EXCEPT ![p] =
          IF procs[p].k \notin RentalSet
          THEN Respond(procs[p], FALSE, "not_found", 0)
          ELSE IF rentals[procs[p].k].status # "active"
          THEN Respond(procs[p], FALSE, "not_active", 0)
          ELSE [procs[p] EXCEPT !.pc = "rt_reservation",
                                !.r = rentals[procs[p].k].reservation_id]]
    /\ UNCHANGED <<reservations, rentals, vehicles, indexes, calc, catalog, outbox, issued>>

\* Charge rules.  Money is in hundredths of the currency unit, time in
\* seconds, distance in km, fuel in hundredths of a tank.
LATE_FEE_PER_HOUR == 1000
DAILY_KM_ALLOWANCE == 200
OVERAGE_PER_KM == 50
FUEL_REFILL_RATE == 50
GRACE_PERIOD_HOURS == 1
SecondsPerHour == 3600
SecondsPerDay == 86400

Max(a, b) == IF a >= b THEN a ELSE b

\* math.ceil(a / b) for a > 0, b > 0
Ceil(a, b) == (a + b - 1) \div b

\* rental days that are not raised to the one-day minimum
ChargeDays_Unclamped(pickup_date, return_date) == return_date.day - pickup_date.day

\* rental_days = (return_date - pickup_date).days; 0 becomes 1
ChargeDays(pickup_date, return_date) ==
    IF return_date.day - pickup_date.day = 0 THEN 1
    ELSE return_date.day - pickup_date.day

\* a late fee that counts only the full hours
LateFee_FullHours(return_timestamp, grace_end_datetime) ==
    IF return_timestamp > grace_end_datetime
    THEN ((return_timestamp - grace_end_datetime) \div SecondsPerHour) * LATE_FEE_PER_HOUR
    ELSE 0

LateFee(return_timestamp, grace_end_datetime) ==
    IF return_timestamp > grace_end_datetime
    THEN Ceil(return_timestamp - grace_end_datetime, SecondsPerHour) * LATE_FEE_PER_HOUR
    ELSE 0

MileageOverageFee(actual_km, allowed_km) ==
    Max(0, actual_km - allowed_km) * OVERAGE_PER_KM

\* a fuel fee that credits a fuller tank
FuelRefillFee_Credit(pickup_fuel_level, return_fuel_level) ==
    (pickup_fuel_level - return_fuel_level) * FUEL_REFILL_RATE

FuelRefillFee(pickup_fuel_level, return_fuel_level) ==
    Max(0, (pickup_fuel_level - return_fuel_level) * FUEL_REFILL_RATE)

\* Rental.complete_return of the entity layer: the due time counts the days
\* between the reservation's dates as they are, the mileage allowance counts
\* at least one day
complete_return(pickup_readings, reservation, return_odometer, return_fuel_level, return_timestamp, manual_damage_charge) ==
    LET rental_days == calculate_rental_days(reservation.pickup_date, reservation.return_date)
        due_datetime == pickup_readings.timestamp + rental_days * SecondsPerDay
        grace_end_datetime == due_datetime + 1 * SecondsPerHour
        allowed_km == ChargeDays(reservation.pickup_date, reservation.return_date)
                          * DAILY_KM_ALLOWANCE
    IN [base_price |-> reservation.total_price,
        late_fee |-> LateFee(return_timestamp, grace_end_datetime),
        mileage_overage_fee |->
            MileageOverageFee(return_odometer - pickup_readings.odometer, allowed_km),
        fuel_refill_fee |-> FuelRefillFee(pickup_readings.fuel_level, return_fuel_level),
        damage_fee |-> manual_damage_charge * 100]

\* RentalCharges.total: the sum of the five items
ChargesTotal(charges) ==
    charges.base_price + charges.late_fee + charges.mileage_overage_fee
        + charges.fuel_refill_fee + charges.damage_fee

\* the stored dates are turned into dates whatever their kind
calculate_rental_charges(rental_doc, reservation_doc, return_odometer, return_fuel_level, return_timestamp, manual_damage_charge) ==
    LET pickup_readings == rental_doc.pickup_readings
        rental_days == ChargeDays(reservation_doc.pickup_date, reservation_doc.return_date)
        due_datetime == pickup_readings.timestamp + rental_days * SecondsPerDay
        grace_end_datetime == due_datetime + GRACE_PERIOD_HOURS * SecondsPerHour
    IN [base_price |-> reservation_doc.total_price,
        late_fee |-> LateFee(return_timestamp, grace_end_datetime),
        mileage_overage_fee |->
            MileageOverageFee(return_odometer - pickup_readings.odometer,
                              rental_days * DAILY_KM_ALLOWANCE),
        fuel_refill_fee |-> FuelRefillFee(pickup_readings.fuel_level, return_fuel_level),
        damage_fee |-> manual_damage_charge * 100]

\* await find_employee_by_id(...), await find_reservation_by_id(...), the
\* odometer check and the charge calculation
ReturnReservation(p) ==
    /\ procs[p].pc = "rt_reservation"
    /\ LET doc == reservations[procs[p].r]
       IN procs' = [procs EXCEPT ![p] =
             IF doc = None
             THEN Respond(procs[p], FALSE, "not_found", 0)
             ELSE IF procs[p].odo < PickupReadings.odometer
             THEN Respond(procs[p], FALSE, "odometer", 0)
             ELSE [procs[p] EXCEPT !.pc = "rt_update",
                      !.charges = calculate_rental_charges(rentals[procs[p].k], doc,
                                      procs[p].odo, PickupReadings.fuel_level,
                                      PickupReadings.timestamp, procs[p].dmg)]]
    /\ UNCHANGED <<reservations, rentals, vehicles, indexes, calc, catalog, outbox, issued>>

\* update_one({"_id": rental_id}, {"$set": update_data})
update_rental(k, update_data) ==
    [rentals EXCEPT ![k] = [f \in DOMAIN rentals[k] |->
        IF f \in DOMAIN update_data THEN update_data[f] ELSE rentals[k][f]]]

\* await update_rental(rental_id, update_data); the vehicle update that
\* follows reads request.vehicle_id, which the request model does not have:
\* the AttributeError is caught and logged, nothing is written
ReturnUpdate(p) ==
    /\ procs[p].pc = "rt_update"
    /\ rentals' = update_rental(procs[p].k,
          [status |-> "completed",
           return_readings |-> [odometer |-> procs[p].odo],
           charges |-> procs[p].charges])
    /\ procs' = [procs EXCEPT ![p] = Respond(procs[p], TRUE, "", procs[p].k)]
    /\ UNCHANGED <<reservations, vehicles, indexes, calc, catalog, outbox, issued>>

\* --------------------------------------------- RentalService.extend_rental
\* The request validator rejects a new_return_date in the past (before day 0).
\* an extension that also takes the current return date as the new one
ExtendAccepted_SameDay(k, nd) ==
    /\ k \in RentalSet
    /\ rentals[k].status = "active"
    /\ LET r == rentals[k].reservation_id
           doc == reservations[r]
       IN /\ doc # None
          /\ nd >= doc.return_date.day
          /\ check_rental_extension_conflict(rentals[k].vehicle_id,
                                             doc.return_date.day, nd, r)

ExtendAccepted(k, nd) ==
    /\ k \in RentalSet
    /\ rentals[k].status = "active"
    /\ LET r == rentals[k].reservation_id
           doc == reservations[r]
       IN /\ doc # None
          /\ nd > doc.return_date.day
          /\ check_rental_extension_conflict(rentals[k].vehicle_id,
                                             doc.return_date.day, nd, r)

extend_rental(k, nd) ==
    /\ reservations' =
         IF ExtendAccepted(k, nd)
         THEN [reservations EXCEPT ![rentals[k].reservation_id].return_date = DateTime(nd)]
         ELSE reservations
    /\ UNCHANGED <<rentals, vehicles, procs, indexes, calc, catalog, outbox, issued>>

\* the request together with its response: every rejection is a ValueError
\* raised before the write
ExtendRental(p, k, nd) ==
    /\ procs[p].pc = "idle"
    /\ reservations' =
         IF ExtendAccepted(k, nd)
         THEN [reservations EXCEPT ![rentals[k].reservation_id].return_date = DateTime(nd)]
         ELSE reservations
    /\ procs' = [procs EXCEPT ![p] =
          Respond([Idle EXCEPT !.op = "extend", !.k = k, !.rd = nd],
                  ExtendAccepted(k, nd),
                  IF ExtendAccepted(k, nd) THEN "extended" ELSE "rejected", k)]
    /\ UNCHANGED <<rentals, vehicles, indexes, calc, catalog, outbox, issued>>

\* ------------------------------------------ PaymentService.process_payment
PaymentMethods == {"credit_card", "paypal"}

\* validate_payment_details of both products returns True
validate_payment_details(m) == TRUE

\* PaymentInterface.process_payment of the two products: the card payment
\* returns True, the PayPal payment returns False
PaymentInterface_process_payment(m) == m = "credit_card"

\* execute_payment: the receipt says "successful" iff validation passed
execute_payment(m) == IF validate_payment_details(m) THEN "successful" ELSE "failed"

PaymentAccepted(r) ==
    /\ reservations[r] # None
    /\ reservations[r].invoice.status = "pending"

process_payment(r, m) ==
    /\ reservations' =
         IF PaymentAccepted(r)
         THEN [reservations EXCEPT ![r].invoice.status =
                 IF execute_payment(m) = "successful" THEN "completed" ELSE "failed"]
         ELSE reservations
    /\ UNCHANGED <<rentals, vehicles, procs, indexes, calc, catalog, outbox, issued>>

\* ------------------------------------------------ AddOnService.update_add_on
\* a catalog edit: the add-on document gets a new price_per_day
update_add_on(a, price) ==
    /\ catalog' = [catalog EXCEPT ![a] = price]
    /\ UNCHANGED <<reservations, rentals, vehicles, procs, indexes, calc, outbox, issued>>

\* ---------------------------------------------- VehicleService.update_vehicle
update_vehicle(v, s) ==
    /\ vehicles' = [vehicles EXCEPT ![v] = s]
    /\ UNCHANGED <<reservations, rentals, procs, indexes, calc, catalog, outbox, issued>>

\* ------------------------------------------------------------ the system
\* Steps of the in-flight coroutines: each runs to its next await.
Steps ==
    \E p \in Procs :
        \/ CreateCheck(p)
        \/ CreatePrice(p)
        \/ CreateInsert(p)
        \/ PickupLookup(p)
        \/ PickupReservation(p)
        \/ PickupValidate(p)
        \/ PickupInsert(p)
        \/ PickupUpdate(p)
        \/ ReturnLookup(p)
        \/ ReturnReservation(p)
        \/ ReturnUpdate(p)
        \/ Ack(p)

\* Concurrent requests: create_reservation, pickup_vehicle and
\* return_vehicle coroutines interleave at their awaits; reservations are set approved meanwhile by
\* update_reservation requests carrying status = approved.
Next ==
    \/ \E p \in Procs : StartCreate(p, "c1", "v1", 0, 1)
    \/ \E p \in Procs, r \in ResIds, tok \in Tokens : StartPickup(p, r, tok)
    \/ \E r \in ResIds : UpdateReservation(r, "approved", "-", Absent, Absent)
    \/ \E p \in Procs, k \in RentalIds, q \in ReturnRequests :
          StartReturn(p, k, q[1], q[2])
    \/ Steps

Spec == Init /\ [][Next]_vars

\* Rental lifecycle, one request at a time (the requests are symmetric in
\* the coroutine that serves them, so the first serves every one): every
\* handler that reads or writes a rental or a reservation's status, on one
\* vehicle and one period; extensions are to the last day.
NextRental ==
    \/ AllIdle /\ StartCreate(1, "c1", "v1", 0, 1)
    \/ \E r \in ResIds, tok \in Tokens : AllIdle /\ StartPickup(1, r, tok)
    \/ \E r \in ResIds, st \in ReservationStatus :
          AllIdle /\ UpdateReservation(r, st, "-", Absent, Absent)
    \/ \E r \in ResIds : AllIdle /\ approve_reservation(r)
    \/ \E k \in RentalIds : AllIdle /\ StartReturn(1, k, 0, 0)
    \/ \E k \in RentalIds : AllIdle /\ extend_rental(k, MaxDay)
    \/ \E s \in {"available", "out_of_service"} : AllIdle /\ update_vehicle("v1", s)
    \/ Steps

SpecRental == Init /\ [][NextRental]_vars

\* Booking, one request at a time: creating, moving, approving, cancelling
\* and paying reservations over all vehicles and periods.
NextBooking ==
    \/ \E v \in Vehicles, pd \in Days, rd \in Days :
          AllIdle /\ StartCreate(1, "c1", v, pd, rd)
    \/ \E r \in ResIds : AllIdle /\ UpdateReservation(r, "cancelled", "-", Absent, Absent)
    \/ \E r \in ResIds, v \in Vehicles \cup {"-"},
          pd \in Days \cup {Absent}, rd \in Days \cup {Absent} :
          AllIdle /\ UpdateReservation(r, "-", v, pd, rd)
    \/ \E r \in ResIds : AllIdle /\ approve_reservation(r)
    \/ \E r \in ResIds, m \in PaymentMethods : AllIdle /\ process_payment(r, m)
    \/ \E s \in {"available", "out_of_service"} : AllIdle /\ update_vehicle("v1", s)
    \/ \E p \in Procs : CreateCheck(p) \/ CreatePrice(p) \/ CreateInsert(p) \/ Ack(p)

SpecBooking == Init /\ [][NextBooking]_vars

\* Extensions, one request at a time: reservations of one vehicle starting
\* on the first day or lying on the last one, approved or cancelled by
\* updates, moved to the last day by an update, picked up, returned and
\* extended to every day.
ExtendPeriods == {<<0, 0>>, <<0, 1>>, <<MaxDay, MaxDay>>}

NextExtend ==
    \/ \E q \in ExtendPeriods : AllIdle /\ StartCreate(1, "c1", "v1", q[1], q[2])
    \/ \E r \in ResIds, st \in {"approved", "cancelled"} :
          AllIdle /\ UpdateReservation(r, st, "-", Absent, Absent)
    \/ \E r \in ResIds : AllIdle /\ UpdateReservation(r, "-", "-", MaxDay, MaxDay)
    \/ \E r \in ResIds : AllIdle /\ StartPickup(1, r, "t1")
    \/ \E k \in RentalIds : AllIdle /\ StartReturn(1, k, 0, 0)
    \/ \E k \in RentalIds, nd \in Days : AllIdle /\ ExtendRental(1, k, nd)
    \/ Steps

SpecExtend == Init /\ [][NextExtend]_vars

\* The paid path from booking to return, one request at a time: create,
\* approve (an update carrying status = approved), pay, pick up, return.
NextLifecycle ==
    \/ AllIdle /\ StartCreate(1, "c1", "v1", 0, 1)
    \/ \E r \in ResIds : AllIdle /\ UpdateReservation(r, "approved", "-", Absent, Absent)
    \/ \E r \in ResIds, m \in PaymentMethods : AllIdle /\ process_payment(r, m)
    \/ \E r \in ResIds, tok \in Tokens : AllIdle /\ StartPickup(1, r, tok)
    \/ \E k \in RentalIds, q \in ReturnRequests :
          AllIdle /\ StartReturn(1, k, q[1], q[2])
    \/ Steps

SpecLifecycle == Init /\ [][NextLifecycle]_vars

\* Dates, one request at a time: reservations of one vehicle created on
\* the first or the last day, in either order of the two dates, updated with
\* one date or both, approved, picked up and extended to the last day.
EndDays == {0, MaxDay}

NextDates ==
    \/ \E pd \in EndDays, rd \in EndDays : AllIdle /\ StartCreate(1, "c1", "v1", pd, rd)
    \/ \E r \in ResIds, pd \in EndDays \cup {Absent}, rd \in EndDays \cup {Absent} :
          AllIdle /\ UpdateReservation(r, "-", "-", pd, rd)
    \/ \E r \in ResIds : AllIdle /\ UpdateReservation(r, "approved", "-", Absent, Absent)
    \/ \E r \in ResIds : AllIdle /\ StartPickup(1, r, "t1")
    \/ \E k \in RentalIds : AllIdle /\ extend_rental(k, MaxDay)
    \/ \E p \in Procs :
          \/ CreateCheck(p) \/ CreatePrice(p) \/ CreateInsert(p)
          \/ PickupLookup(p) \/ PickupReservation(p) \/ PickupValidate(p)
          \/ PickupInsert(p) \/ PickupUpdate(p)
          \/ Ack(p)

SpecDates == Init /\ [][NextDates]_vars

\* Deleting, one request at a time: a reservation of one vehicle and
\* period is created, approved, picked up, returned, extended to the last
\* day, and deleted at any point.
NextDelete ==
    \/ AllIdle /\ StartCreate(1, "c1", "v1", 0, 1)
    \/ \E r \in ResIds : AllIdle /\ UpdateReservation(r, "approved", "-", Absent, Absent)
    \/ \E r \in ResIds : AllIdle /\ StartPickup(1, r, "t1")
    \/ \E k \in RentalIds : AllIdle /\ StartReturn(1, k, 0, 0)
    \/ \E k \in RentalIds : AllIdle /\ ExtendRental(1, k, MaxDay)
    \/ \E r \in ResIds : AllIdle /\ delete_reservation(r)
    \/ Steps

SpecDelete == Init /\ [][NextDelete]_vars

\* Repricing and extending, one request at a time: a reservation on v1 is
\* created, approved, updated with its dates, on v1 or moved to v2 (which
\* recomputes its price), picked up and extended to the last day.
NextReprice ==
    \/ AllIdle /\ StartCreate(1, "c1", "v1", 0, 1)
    \/ \E r \in ResIds : AllIdle /\ UpdateReservation(r, "approved", "-", Absent, Absent)
    \/ \E r \in ResIds, v \in {"-", "v2"} :
          AllIdle /\ UpdateReservation(r, "-", v, 0, 1)
    \/ \E r \in ResIds, tok \in Tokens : AllIdle /\ StartPickup(1, r, tok)
    \/ \E k \in RentalIds : AllIdle /\ extend_rental(k, MaxDay)
    \/ \E p \in Procs :
          \/ CreateCheck(p) \/ CreatePrice(p) \/ CreateInsert(p)
          \/ PickupLookup(p) \/ PickupReservation(p) \/ PickupValidate(p)
          \/ PickupInsert(p) \/ PickupUpdate(p)
          \/ Ack(p)

SpecReprice == Init /\ [][NextReprice]_vars

\* The same requests with every coroutine run on to its response, as the
\* event loop does.
SpecLifecycleFair == SpecLifecycle /\ WF_vars(Steps)

\* The same requests while the price of an add-on is edited in the catalog.
CatalogPrices == {5, 7}

NextCatalog ==
    \/ NextReprice
    \/ \E price \in CatalogPrices : AllIdle /\ update_add_on("gps", price)

SpecCatalog == Init /\ [][NextCatalog]_vars

\* The same requests over a store whose writes may fail during a pickup.
NextFaults ==
    \/ NextLifecycle
    \/ \E p \in Procs : PickupInsertFails(p)
    \/ \E p \in Procs : PickupUpdateFails(p)

SpecFaults == Init /\ [][NextFaults]_vars

\* Strategy selection on its own: the prior reservation count is drawn at
\* the start, then the service selector and the entity selector are applied.
InitStrategy ==
    /\ EmptyStore(MaxRes)
    /\ calc \in {[n |-> n, service |-> "-", entity |-> "-"] : n \in 0..MaxCount}

SelectService ==
    /\ calc.service = "-"
    /\ calc' = [calc EXCEPT !.service = determine_pricing_strategy(calc.n)]
    /\ UNCHANGED <<reservations, rentals, vehicles, procs, indexes, catalog, outbox, issued>>

SelectEntity ==
    /\ calc.entity = "-"
    /\ calc' = [calc EXCEPT !.entity = PricingStrategy(calc.n)]
    /\ UNCHANGED <<reservations, rentals, vehicles, procs, indexes, catalog, outbox, issued>>

NextStrategy == SelectService \/ SelectEntity

SpecStrategy == InitStrategy /\ [][NextStrategy]_vars

\* Price calculation on its own: the vehicle, insurance tier, add-on list,
\* dates and tier are drawn at the start, then the price is calculated from
\* the documents' daily rates.
AddOnLists == {<<>>, <<"gps">>, <<"gps", "child_seat">>}

PriceInputs ==
    {[v |-> v, ins |-> t, add_ons |-> a, pd |-> pd, rd |-> rd, tier |-> s,
      total |-> Absent] :
        v \in Vehicles, t \in InsuranceTiers, a \in AddOnLists,
        pd \in 0..MaxPriceDay, rd \in 0..MaxPriceDay,
        s \in {"first_order", "loyalty", "daily"}}

InitPrice ==
    /\ EmptyStore(MaxRes)
    /\ calc \in {c \in PriceInputs : c.pd <= c.rd}

Price ==
    /\ calc.total = Absent
    /\ calc' = [calc EXCEPT !.total =
          calculate_total_price(VehicleRate[calc.v], InsuranceRate[calc.ins],
              [i \in DOMAIN calc.add_ons |-> AddOnRate[calc.add_ons[i]]],
              ReqDate(calc.pd), ReqDate(calc.rd), calc.tier)]
    /\ UNCHANGED <<reservations, rentals, vehicles, procs, indexes, catalog, outbox, issued>>

NextPrice == Price

SpecPrice == InitPrice /\ [][NextPrice]_vars

\* Price computation run twice on the same inputs at two wall-clock days:
\* through the service's calculate_total_price, through the pricing context
\* (PricingStrategy.calculate_price) or through a strategy called directly
\* with or without a clock.
PricingPaths == {"service", "context", "strategy"}

ClockInputs ==
    {[path |-> path, tier |-> t, pd |-> pd, rd |-> rd, clock |-> c, outcomes |-> <<>>] :
        path \in PricingPaths, t \in {"first_order", "loyalty", "daily"},
        pd \in 0..MaxPriceDay, rd \in 0..MaxPriceDay,
        c \in {None} \cup {FakeClock(d) : d \in 0..MaxPriceDay}}

InitClock ==
    /\ EmptyStore(MaxRes)
    /\ calc \in {c \in ClockInputs : c.path = "strategy" \/ c.clock = None}

\* one computation at wall-clock day wall
Compute(wall) ==
    /\ Len(calc.outcomes) < 2
    /\ LET rates == <<AddOnRate["gps"]>>
           outcome ==
               IF calc.path = "service"
               THEN [ok |-> TRUE, error |-> "",
                     price |-> calculate_total_price(VehicleRate["v1"],
                                   InsuranceRate["basic"], rates,
                                   ReqDate(calc.pd), ReqDate(calc.rd), calc.tier)]
               ELSE IF calc.path = "context"
               THEN PricingStrategy_calculate_price(calc.tier, VehicleRate["v1"],
                        InsuranceRate["basic"], rates, calc.pd, calc.rd, wall)
               ELSE Strategy_calculate(calc.tier, VehicleRate["v1"],
                        InsuranceRate["basic"], rates, calc.pd, calc.rd,
                        calc.clock, wall)
       IN calc' = [calc EXCEPT !.outcomes = Append(@, outcome)]
    /\ UNCHANGED <<reservations, rentals, vehicles, procs, indexes, catalog, outbox, issued>>

NextClock == \E wall \in 0..MaxPriceDay : Compute(wall)

SpecClock == InitClock /\ [][NextClock]_vars

\* Charge calculation on its own: a rental and its reservation's dates are
\* drawn at the start together with the readings at return, then the
\* charges are calculated.  The three families vary the return time, the
\* distance driven and the fuel levels.
ReturnOffsets == {0, 3000, 3600, 3601, 7200, 7201, 7260, 10800}
Distances == {0, 100, 200, 201, 400, 600, 601, 700, 800, 1000}
FuelLevels == {0, 25, 50, 80, 100}

ChargeInput(days, ts, km, pf, rf) ==
    [rd |-> days, ts |-> ts, km |-> km, pf |-> pf, rf |-> rf, charges |-> None,
     entity |-> None]

ChargeInputs ==
    {ChargeInput(days, d * SecondsPerDay + o, 0, 100, 100) :
        days \in 0..MaxPriceDay, d \in 0..MaxPriceDay + 1, o \in ReturnOffsets}
    \cup {ChargeInput(days, 0, km, 100, 100) : days \in 0..MaxPriceDay, km \in Distances}
    \cup {ChargeInput(1, 0, 0, pf, rf) : pf \in FuelLevels, rf \in FuelLevels}

InitCharges == EmptyStore(MaxRes) /\ calc \in ChargeInputs

Charge ==
    /\ calc.charges = None
    /\ calc' = [calc EXCEPT !.charges =
          calculate_rental_charges(
              [pickup_readings |-> [odometer |-> 0, fuel_level |-> calc.pf, timestamp |-> 0]],
              [pickup_date |-> StrDate(0), return_date |-> StrDate(calc.rd), total_price |-> 0],
              calc.km, calc.rf, calc.ts, 0)]
    /\ UNCHANGED <<reservations, rentals, vehicles, procs, indexes, catalog, outbox, issued>>

NextCharges == Charge

\* the entity layer's calculation on the same inputs
ChargeEntity ==
    /\ calc.entity = None
    /\ calc' = [calc EXCEPT !.entity =
          complete_return(
              [odometer |-> 0, fuel_level |-> calc.pf, timestamp |-> 0],
              [pickup_date |-> ReqDate(0), return_date |-> ReqDate(calc.rd), total_price |-> 0],
              calc.km, calc.rf, calc.ts, 0)]
    /\ UNCHANGED <<reservations, rentals, vehicles, procs, indexes, catalog, outbox, issued>>

\* Both charge calculators on the same inputs, in either order.
NextCalculators == Charge \/ ChargeEntity

SpecCalculators == InitCharges /\ [][NextCalculators]_vars

SpecCharges == InitCharges /\ [][NextCharges]_vars

\* One customer creating reservations one after another, each on v1 from
\* day 0 for one or two days.
InitHistory == EmptyStore(MaxHistory) /\ calc = None

NextHistory ==
    \/ \E rd \in {1, 2} : AllIdle /\ StartCreate(1, "c1", "v1", 0, rd)
    \/ \E p \in Procs : CreateCheck(p) \/ CreatePrice(p) \/ CreateInsert(p) \/ Ack(p)

SpecHistory == InitHistory /\ [][NextHistory]_vars

\* ================================================================ claims
RentalsOfToken(t) == {k \in RentalSet : rentals[k].pickup_token = t}

RentalsOfReservation(r) == {k \in RentalSet : rentals[k].reservation_id = r}

PickupSucceeded(p) ==
    procs[p].pc = "done" /\ procs[p].op = "pickup" /\ procs[p].ok

\* C1: with requests served one at a time, every pickup call that reports
\* success returns the one and only Rental that carries its token; so a call
\* repeating a token returns the id the first call returned, and exactly one
\* Rental exists for that token after any number of calls.
C1_IdempotentPickup ==
    \A p \in Procs :
        PickupSucceeded(p) => RentalsOfToken(procs[p].tok) = {procs[p].id}

\* C1 witness: a repeated pickup (same token, same reservation) has answered
\* from the existing Rental.
C1_Witness ==
    \E p \in Procs :
        /\ PickupSucceeded(p)
        /\ procs[p].msg = "idempotent"
        /\ rentals[procs[p].id].reservation_id = procs[p].r

\* C2: under every interleaving of concurrent pickup requests, at most one
\* Rental exists for a token, and every request that reports success returns it.
C2_ConcurrentSameToken ==
    /\ \A t \in Tokens : Cardinality(RentalsOfToken(t)) <= 1
    /\ \A p \in Procs :
          PickupSucceeded(p) => RentalsOfToken(procs[p].tok) = {procs[p].id}

\* C2 witness: two pickup requests carrying the same token for the same
\* reservation are in flight together, both past the token lookup.
C2_Witness ==
    \E p, q \in Procs :
        /\ p # q
        /\ procs[p].pc = "pk_insert" /\ procs[q].pc = "pk_insert"
        /\ procs[p].tok = procs[q].tok /\ procs[p].r = procs[q].r

ActiveStatuses == {"pending", "approved"}

\* inclusive overlap of [p1, r1] and [p2, r2]
Overlaps(p1, r1, p2, r2) == p1 <= r2 /\ p2 <= r1

\* C3: no two distinct active (pending or approved) reservations of one
\* vehicle have overlapping inclusive date ranges.
C3_NoDoubleBooking ==
    \A a, b \in Stored :
        (/\ a # b
         /\ reservations[a].vehicle_id = reservations[b].vehicle_id
         /\ reservations[a].status \in ActiveStatuses
         /\ reservations[b].status \in ActiveStatuses)
        => ~Overlaps(reservations[a].pickup_date.day, reservations[a].return_date.day,
                     reservations[b].pickup_date.day, reservations[b].return_date.day)

\* C3 witness: a create request was turned down by the availability check.
C3_Witness ==
    \E p \in Procs :
        procs[p].pc = "done" /\ procs[p].op = "create" /\ procs[p].msg = "not_available"

CreateSucceeded(p) ==
    procs[p].pc = "done" /\ procs[p].op = "create" /\ procs[p].ok

\* C4: of two create_reservation requests in flight together for the same
\* vehicle and overlapping dates, at most one succeeds and at most one of
\* their reservations is stored.
C4_ConcurrentCreate ==
    \A p, q \in Procs :
        (/\ p # q
         /\ procs[p].v = procs[q].v
         /\ Overlaps(procs[p].pd, procs[p].rd, procs[q].pd, procs[q].rd))
        => ~(CreateSucceeded(p) /\ CreateSucceeded(q))

\* C4 witness: two such requests have both passed the availability check
\* and neither has inserted yet.
C4_Witness ==
    \E p, q \in Procs :
        /\ p # q
        /\ procs[p].pc = "cr_insert" /\ procs[q].pc = "cr_insert"
        /\ procs[p].v = procs[q].v
        /\ Overlaps(procs[p].pd, procs[p].rd, procs[q].pd, procs[q].rd)

\* the availability rule as specified: some other active reservation of the
\* vehicle has pickup_date <= return and return_date >= pickup
Unavailable(v, p, rt, exclude) ==
    \E r \in Stored :
        /\ r # exclude
        /\ reservations[r].vehicle_id = v
        /\ reservations[r].status \in ActiveStatuses
        /\ reservations[r].pickup_date.day <= rt
        /\ reservations[r].return_date.day >= p

\* C5: the availability check reports unavailable exactly when the rule
\* above says so, for every vehicle, period and excluded id.
C5_AvailabilityIff ==
    \A v \in Vehicles, p \in Days, rt \in Days, exclude \in ResIds \cup {0} :
        p <= rt =>
            (~check_vehicle_availability(v, p, rt, exclude) <=> Unavailable(v, p, rt, exclude))

\* C5 witness: the availability query reports a vehicle unavailable for some period.
C5_Witness ==
    \E v \in Vehicles, p \in Days, rt \in Days :
        p <= rt /\ ~check_vehicle_availability(v, p, rt, 0)

\* C6: every reservation has at most one Rental, under every interleaving
\* of concurrent pickup requests: no reservation has two Rentals created
\* by pickups carrying different tokens.
C6_OneRentalPerReservation ==
    \A r \in ResIds : \A j, k \in RentalsOfReservation(r) :
        rentals[j].pickup_token # rentals[k].pickup_token => j = k

\* C6 witness: a pickup with a new token for a reservation that already has
\* a Rental was rejected as already picked up.
C6_Witness ==
    \E p \in Procs :
        /\ procs[p].pc = "done" /\ procs[p].msg = "already_picked_up"
        /\ RentalsOfReservation(procs[p].r) # {}
        /\ RentalsOfToken(procs[p].tok) = {}

AllowedTransitions ==
    {<<"pending", "approved">>, <<"approved", "picked_up">>,
     <<"picked_up", "completed">>, <<"pending", "cancelled">>,
     <<"approved", "cancelled">>}

\* C7: a reservation is created pending and its status changes only along
\* the allowed transitions.
C7_StatusTransitions ==
    [][\A r \in ResIds :
          /\ (reservations[r] = None /\ reservations'[r] # None)
                => reservations'[r].status = "pending"
          /\ (reservations[r] # None /\ reservations'[r] # None
                /\ reservations'[r].status # reservations[r].status)
                => <<reservations[r].status, reservations'[r].status>> \in AllowedTransitions
      ]_vars

\* C7 witness: a reservation has been approved and then picked up.
C7_Witness ==
    \E k \in RentalSet :
        /\ reservations[rentals[k].reservation_id] # None
        /\ reservations[rentals[k].reservation_id].status = PickupReservationStatus

\* cancelling: update_reservation carrying only status = cancelled
Cancel(r) == AllIdle /\ UpdateReservation(r, "cancelled", "-", Absent, Absent)

\* C8: cancelling a pending or approved reservation sets it cancelled;
\* cancelling a picked-up or completed one leaves the reservation unchanged.
C8_Cancel ==
    [][\A r \in ResIds :
          (reservations[r] # None /\ Cancel(r)) =>
              /\ reservations[r].status \in {"pending", "approved"}
                    => reservations'[r].status = "cancelled"
              /\ reservations[r].status \in {"picked_up", "completed"}
                    => reservations' = reservations
      ]_vars

\* C8 witness: a cancelled reservation exists.
C8_Witness == \E r \in Stored : reservations[r].status = "cancelled"

TerminalStatuses == {"cancelled", "completed"}

\* a step of one of the operations C9 names: update, extend, payment, pickup
TerminalOps ==
    \/ \E r \in ResIds, st \in ReservationStatus :
          UpdateReservation(r, st, "-", Absent, Absent)
    \/ \E k \in RentalIds, nd \in Days : extend_rental(k, nd)
    \/ \E r \in ResIds, m \in PaymentMethods : process_payment(r, m)
    \/ \E p \in Procs :
          \/ PickupLookup(p) \/ PickupReservation(p) \/ PickupValidate(p)
          \/ PickupInsert(p) \/ PickupUpdate(p)

\* C9: once a reservation is cancelled or completed, no update, extend,
\* payment or pickup step changes any of its fields.
C9_TerminalFrozen ==
    [][TerminalOps =>
          \A r \in ResIds :
              (reservations[r] # None /\ reservations[r].status \in TerminalStatuses)
                  => reservations'[r] = reservations[r]
      ]_vars

\* C9 witness: a cancelled or completed reservation is stored with its
\* invoice still pending, so that a payment can be attempted on it.
C9_Witness ==
    \E r \in Stored :
        /\ reservations[r].status \in TerminalStatuses
        /\ reservations[r].invoice.status = "pending"

\* C10: a pickup whose token is not yet used (it passed the token lookup)
\* for a stored reservation whose status is not approved ends with the
\* "not approved" rejection, and no step of the call up to and including the
\* rejection changes a rental, a reservation or a vehicle.
C10_NotApprovedRejected ==
    [][\A p \in Procs :
          (procs'[p] # procs[p] /\ procs[p].pc \in {"pk_lookup", "pk_reservation"}) =>
              /\ rentals' = rentals /\ reservations' = reservations /\ vehicles' = vehicles
              /\ (/\ procs[p].pc = "pk_reservation"
                  /\ reservations[procs[p].r] # None
                  /\ reservations[procs[p].r].status # "approved")
                 => (procs'[p].pc = "done" /\ ~procs'[p].ok /\ procs'[p].msg = "not_approved")
      ]_vars

\* C10 witness: a pickup with an unused token was rejected as not approved.
C10_Witness ==
    \E p \in Procs :
        /\ procs[p].pc = "done" /\ procs[p].op = "pickup"
        /\ procs[p].msg = "not_approved"
        /\ RentalsOfToken(procs[p].tok) = {}
        /\ reservations[procs[p].r].status # "approved"

ReservationOf(k) == reservations[rentals[k].reservation_id]

\* C11: a Rental exists only for a reservation whose invoice is completed:
\* a pickup of an approved reservation with an unpaid invoice creates none.
C11_PaidBeforePickup ==
    \A k \in RentalSet : ReservationOf(k).invoice.status = "completed"

\* C11 witness: a pickup of a reservation whose invoice is still pending
\* has passed the status check and is about to insert its Rental.
C11_Witness ==
    \E p \in Procs :
        /\ procs[p].pc = "pk_insert"
        /\ reservations[procs[p].r].invoice.status = "pending"

\* a pickup call that created its Rental (not a replay) has answered
FreshPickupDone(p) == PickupSucceeded(p) /\ procs[p].msg # "idempotent"

\* C12: when a pickup has just succeeded the reservation is picked_up, and
\* a reservation is completed only if it has a Rental and every Rental of
\* it is completed; none is completed while its Rental is active.
C12_StatusConsistency ==
    /\ \A p \in Procs :
          FreshPickupDone(p) => reservations[procs[p].r].status = "picked_up"
    /\ \A r \in Stored :
          reservations[r].status = "completed" =>
              /\ RentalsOfReservation(r) # {}
              /\ \A k \in RentalsOfReservation(r) : rentals[k].status = "completed"

\* C12 witness: a pickup has created its Rental and answered success.
C12_Witness ==
    \E p \in Procs : FreshPickupDone(p) /\ rentals[procs[p].id].status = "active"

ReturnSucceeded(p) ==
    procs[p].pc = "done" /\ procs[p].op = "return" /\ procs[p].ok

\* C13: when a pickup has just succeeded the Rental's vehicle is picked_up;
\* between requests the vehicle of every active Rental is picked_up; when a
\* return has just succeeded the Rental's vehicle is available.
C13_VehicleFollowsRental ==
    /\ \A p \in Procs :
          FreshPickupDone(p) => vehicles[rentals[procs[p].id].vehicle_id] = "picked_up"
    /\ AllIdle =>
          \A k \in RentalSet :
              rentals[k].status = "active" => vehicles[rentals[k].vehicle_id] = "picked_up"
    /\ \A p \in Procs :
          ReturnSucceeded(p) => vehicles[rentals[procs[p].k].vehicle_id] = "available"

\* C13 witness: a Rental made by a successful pickup has been returned.
C13_Witness ==
    \E p \in Procs : ReturnSucceeded(p) /\ rentals[procs[p].k].status = "completed"

\* C14: a Rental is created active with return readings and charges
\* unset; its status changes only from active to completed; once it is
\* completed no step changes it, and a return request that reaches its
\* write after another return completed the Rental is rejected.
C14_WriteOnceReturn ==
    [][/\ \A k \in 1..Len(rentals') :
             k \notin RentalSet =>
                 /\ rentals'[k].status = "active"
                 /\ rentals'[k].return_readings = None
                 /\ rentals'[k].charges = None
       /\ \A k \in RentalSet :
             /\ rentals'[k].status # rentals[k].status =>
                    (rentals[k].status = "active" /\ rentals'[k].status = "completed")
             /\ rentals[k].status = "completed" => rentals'[k] = rentals[k]
       /\ \A p \in Procs :
             (/\ procs[p].pc = "rt_update" /\ procs'[p].pc = "done"
              /\ rentals[procs[p].k].status = "completed")
             => ~procs'[p].ok
      ]_vars

\* C14 witness: two return requests for the same active Rental, carrying
\* different readings, have both passed the status check.
C14_Witness ==
    \E p, q \in Procs :
        /\ p # q
        /\ procs[p].pc = "rt_update" /\ procs[q].pc = "rt_update"
        /\ procs[p].k = procs[q].k
        /\ procs[p].odo # procs[q].odo

UnreservableStatuses == {"reserved", "picked_up", "out_of_service"}

\* C15: a create_reservation request for a vehicle whose status is
\* reserved, picked_up or out_of_service ends with the not-available
\* rejection (requests are served one at a time, so the vehicle's status is
\* the same from the request's start to its answer).
C15_CreateNeedsAvailableVehicle ==
    \A p \in Procs :
        (/\ procs[p].pc = "done" /\ procs[p].op = "create"
         /\ vehicles[procs[p].v] \in UnreservableStatuses)
        => (~procs[p].ok /\ procs[p].msg = "not_available")

\* C15 witness: a create request for an out-of-service vehicle has answered.
C15_Witness ==
    \E p \in Procs :
        /\ procs[p].pc = "done" /\ procs[p].op = "create"
        /\ vehicles[procs[p].v] = "out_of_service"

\* no Rental is active while its reservation is approved, except while the
\* pickup that inserted it is still running
NoActiveWhileApproved ==
    \A k \in RentalSet :
        (rentals[k].status = "active" /\ ReservationOf(k).status = "approved") =>
            \E p \in Procs : procs[p].pc = "pk_update" /\ procs[p].id = k

\* C16: a pickup call that was not a replay has answered either failure,
\* with no Rental stored for its token, or success with the Rental stored,
\* the reservation moved off approved and the vehicle picked_up; and no
\* Rental is active while its reservation is approved, except while the
\* pickup that inserted it is still running.
C16_AtomicPickup ==
    /\ \A p \in Procs :
          (procs[p].pc = "done" /\ procs[p].op = "pickup" /\ procs[p].msg # "idempotent") =>
              \/ ~procs[p].ok /\ RentalsOfToken(procs[p].tok) = {}
              \/ /\ procs[p].ok
                 /\ RentalsOfToken(procs[p].tok) = {procs[p].id}
                 /\ reservations[procs[p].r].status # "approved"
                 /\ vehicles[procs[p].v] = "picked_up"
    /\ NoActiveWhileApproved

\* C16 witness: a pickup whose reservation-status write failed has answered.
C16_Witness ==
    \E p \in Procs :
        /\ procs[p].pc = "done" /\ procs[p].op = "pickup" /\ procs[p].ok
        /\ procs[p].msg # "idempotent"
        /\ reservations[procs[p].r].status = "approved"

\* the tier the specification gives to a prior reservation count
SpecifiedTier(n) ==
    IF n = 0 THEN "first_order"
    ELSE IF n > 0 /\ (n + 1) % 5 = 0 THEN "loyalty"
    ELSE "daily"

\* C17: for every prior count n, the service selector returns first_order
\* when n = 0, loyalty when n > 0 and (n + 1) mod 5 = 0, daily otherwise,
\* and the entity selector returns the same tier.
C17_StrategySelection ==
    /\ calc.service # "-" => calc.service = SpecifiedTier(calc.n)
    /\ (calc.service # "-" /\ calc.entity # "-") => calc.service = calc.entity

\* C17 witness: both selectors have been applied to a count that gives the
\* loyalty tier.
C17_Witness ==
    /\ calc.n = 4
    /\ calc.service = "loyalty"
    /\ calc.entity = "loyalty"

\* discount (percent) of the k-th reservation a customer creates
KthDiscount(k) == IF k = 1 THEN 15 ELSE IF k % 5 = 0 THEN 10 ELSE 0

\* daily rate of a stored reservation: vehicle, insurance and add-ons
DailyRate(doc) ==
    VehicleRate[doc.vehicle_id] + InsuranceRate[doc.insurance_tier_id]
        + SumSeq([i \in DOMAIN doc.add_ons |-> doc.add_ons[i].price_per_day])

\* C18: the k-th reservation a customer creates (identifiers are given in
\* creation order) is priced with 15% off when k = 1, 10% off when k is a
\* multiple of 5 and no discount otherwise.
C18_KthReservationDiscount ==
    \A k \in Stored :
        reservations[k].total_price =
            DailyRate(reservations[k]) * reservations[k].rental_days
                * (100 - KthDiscount(k))

\* C18 witness: six reservations are stored, the 5th at 10% off and the
\* 6th at full price.
C18_Witness ==
    /\ Cardinality(Stored) = 6
    /\ reservations[5].total_price = DailyRate(reservations[5]) * reservations[5].rental_days * 90
    /\ reservations[6].total_price = DailyRate(reservations[6]) * reservations[6].rental_days * 100

\* C19: the calculated total (hundredths) is (vehicle rate + insurance
\* rate + sum of the add-on rates) x (return_date - pickup_date) x (1 - d),
\* d = 15% first_order, 10% loyalty, 0 daily; 45 + 18 + 5 for 3 days
\* under first_order gives 173.40.
C19_TotalPrice ==
    calc.total # Absent =>
        /\ calc.total =
              (VehicleRate[calc.v] + InsuranceRate[calc.ins]
                 + SumSeq([i \in DOMAIN calc.add_ons |-> AddOnRate[calc.add_ons[i]]]))
              * (calc.rd - calc.pd) * (100 - DiscountPct(calc.tier))
        /\ (/\ VehicleRate[calc.v] = 45 /\ InsuranceRate[calc.ins] = 18
            /\ calc.add_ons = <<"gps">> /\ calc.rd - calc.pd = 3
            /\ calc.tier = "first_order")
           => calc.total = 17340

\* C19 witness: the price of 45 + 18 + 5 a day for 3 days under
\* first_order has been calculated.
C19_Witness ==
    /\ calc.total # Absent
    /\ calc.v = "v1" /\ calc.ins = "basic" /\ calc.add_ons = <<"gps">>
    /\ calc.pd = 0 /\ calc.rd = 3 /\ calc.tier = "first_order"

\* the inputs of a stored reservation's price
PricingInputs(doc) ==
    <<doc.vehicle_id, doc.insurance_tier_id, doc.add_ons,
      doc.pickup_date.day, doc.return_date.day>>

\* C20: whenever a step changes a stored reservation, its total_price is
\* afterwards the price of its vehicle, insurance, add-ons and days at the
\* discount chosen when it was created (the k-th created has identifier k),
\* and a step that changes none of these inputs leaves total_price as it was.
C20_TierChosenOnce ==
    [][\A r \in ResIds :
          (reservations[r] # None /\ reservations'[r] # reservations[r]) =>
              /\ reservations'[r].total_price =
                    DailyRate(reservations'[r]) * reservations'[r].rental_days
                        * (100 - KthDiscount(r))
              /\ PricingInputs(reservations'[r]) = PricingInputs(reservations[r])
                    => reservations'[r].total_price = reservations[r].total_price
      ]_vars

\* C20 witness: a stored reservation has had its dates changed by an update.
C20_Witness ==
    \E r \in Stored :
        /\ reservations[r].pickup_date.kind = "datetime"
        /\ reservations[r].return_date.kind = "datetime"

C22_AddOnSnapshot ==
    [][/\ \A r \in ResIds :
             reservations[r] # None => reservations'[r].add_ons = reservations[r].add_ons
       /\ catalog' # catalog => reservations' = reservations
      ]_vars

\* C22 witness: a stored reservation carries an add-on at a price the
\* catalog no longer holds.
C22_Witness ==
    \E r \in Stored : \E i \in DOMAIN reservations[r].add_ons :
        reservations[r].add_ons[i].price_per_day # catalog[reservations[r].add_ons[i].id]

\* rentalDays as specified: max(1, return_date - pickup_date)
SpecifiedDays(days) == IF days > 1 THEN days ELSE 1

\* the least number of whole hours covering x seconds
HoursCovering(x) == CHOOSE n \in 0..x : n * 3600 >= x /\ (n - 1) * 3600 < x

C24_MileageFee ==
    calc.charges # None =>
        LET allowed == 200 * SpecifiedDays(calc.rd)
        IN /\ allowed >= 200
           /\ calc.charges.mileage_overage_fee =
                 IF calc.km > allowed THEN 50 * (calc.km - allowed) ELSE 0
           /\ (calc.rd = 3 /\ calc.km = 700) => calc.charges.mileage_overage_fee = 5000
           /\ (calc.rd = 3 /\ calc.km <= 600) => calc.charges.mileage_overage_fee = 0

\* C24 witness: the charges of a same-day rental driven 201 km have been
\* calculated.
C24_Witness ==
    calc.charges # None /\ calc.rd = 0 /\ calc.km = 201

\* C25: the fuel fee is 50.00 per tank of the drop from the pickup level to
\* the return level and 0 when the return level is not lower; pickup 0.8
\* with return 0.5 costs 15.00.
C25_FuelFee ==
    calc.charges # None =>
        /\ calc.rf >= calc.pf => calc.charges.fuel_refill_fee = 0
        /\ calc.rf < calc.pf => calc.charges.fuel_refill_fee = (calc.pf - calc.rf) * 50
        /\ (calc.pf = 80 /\ calc.rf = 50) => calc.charges.fuel_refill_fee = 1500

\* C25 witness: the charges of a return with a fuller tank than at pickup
\* have been calculated.
C25_Witness ==
    calc.charges # None /\ calc.pf = 50 /\ calc.rf = 80

\* an extend request served in this step by coroutine p
ExtendServed(p) ==
    procs[p].pc = "idle" /\ procs'[p].pc = "done" /\ procs'[p].op = "extend"

\* the preconditions of extend as specified: the Rental is Active and the
\* new date is strictly after the reservation's current return date
ExtendPreconditions(k, nd) ==
    /\ k \in RentalSet
    /\ rentals[k].status = "active"
    /\ nd > ReservationOf(k).return_date.day

\* C26: an extend is rejected unless the Rental is Active and the new
\* return date is strictly after the reservation's current return date, and
\* a rejected extend leaves the return date and every other stored field as
\* they were.
C26_ExtendPreconditions ==
    [][\A p \in Procs :
          ExtendServed(p) =>
              /\ procs'[p].ok => ExtendPreconditions(procs'[p].k, procs'[p].rd)
              /\ ~procs'[p].ok =>
                    UNCHANGED <<reservations, rentals, vehicles, indexes, catalog, outbox, issued>>]_vars

\* C26 witness: an extend of an active rental to the reservation's current
\* return date has been rejected.
C26_Witness ==
    \E p \in Procs :
        /\ procs[p].pc = "done" /\ procs[p].op = "extend" /\ ~procs[p].ok
        /\ procs[p].k \in RentalSet
        /\ rentals[procs[p].k].status = "active"
        /\ ReservationOf(procs[p].k).return_date.day = procs[p].rd

\* another active reservation of the rental's vehicle whose inclusive range
\* overlaps [current return date, nd]
ExtensionBlocked(k, nd) ==
    \E r \in Stored :
        /\ r # rentals[k].reservation_id
        /\ reservations[r].vehicle_id = rentals[k].vehicle_id
        /\ reservations[r].status \in ActiveStatuses
        /\ Overlaps(reservations[r].pickup_date.day, reservations[r].return_date.day,
                    ReservationOf(k).return_date.day, nd)

\* C27: an extend that passes its preconditions is rejected exactly when
\* another pending or approved reservation of the same vehicle overlaps
\* [current return date, new return date]; otherwise it succeeds and the
\* reservation's return date becomes the new date.
C27_ExtendConflict ==
    [][\A p \in Procs :
          (ExtendServed(p) /\ ExtendPreconditions(procs'[p].k, procs'[p].rd)) =>
              /\ ~procs'[p].ok <=> ExtensionBlocked(procs'[p].k, procs'[p].rd)
              /\ procs'[p].ok =>
                    reservations'[rentals[procs'[p].k].reservation_id].return_date.day
                        = procs'[p].rd]_vars

\* C27 witness: an extend has succeeded although another active reservation
\* of the vehicle lies in the extended booking's range.
C27_Witness ==
    \E p \in Procs :
        /\ procs[p].pc = "done" /\ procs[p].op = "extend" /\ procs[p].ok
        /\ \E r \in Stored :
              /\ r # rentals[procs[p].k].reservation_id
              /\ reservations[r].vehicle_id = rentals[procs[p].k].vehicle_id
              /\ reservations[r].status \in ActiveStatuses
              /\ Overlaps(reservations[r].pickup_date.day, reservations[r].return_date.day,
                          ReservationOf(procs[p].k).pickup_date.day,
                          ReservationOf(procs[p].k).return_date.day)

\* reservation r's period is changed by this step
PeriodChanged(r) ==
    /\ reservations[r] # None
    /\ \/ reservations'[r].pickup_date.day # reservations[r].pickup_date.day
       \/ reservations'[r].return_date.day # reservations[r].return_date.day

\* C28: an update that changes a reservation's pickup or return date is
\* accepted only if, leaving the reservation itself aside, no other active
\* reservation of the resulting vehicle overlaps the resulting period.
C28_DateUpdateRechecks ==
    [][\A r \in ResIds :
          PeriodChanged(r) =>
              ~\E o \in Stored \ {r} :
                  /\ reservations[o].status \in ActiveStatuses
                  /\ reservations[o].vehicle_id = reservations'[r].vehicle_id
                  /\ Overlaps(reservations[o].pickup_date.day,
                              reservations[o].return_date.day,
                              reservations'[r].pickup_date.day,
                              reservations'[r].return_date.day)]_vars

\* C29: a replayed pickup is a no-op: when a Rental with the request's
\* token exists, the call succeeds whatever the status of the reservation it
\* names, answers with that Rental, and changes no Rental, Reservation or
\* Vehicle.
C29_ReplayedPickupNoOp ==
    [][\A p \in Procs :
          (/\ procs[p].pc = "pk_lookup"
           /\ procs'[p] # procs[p]
           /\ RentalsOfToken(procs[p].tok) # {}) =>
              /\ procs'[p].pc = "done"
              /\ procs'[p].ok
              /\ procs'[p].id \in RentalsOfToken(procs[p].tok)
              /\ UNCHANGED <<reservations, rentals, vehicles>>]_vars

\* C29 witness: a pickup with a used token has been answered with the
\* existing Rental while the reservation it names is no longer approved.
C29_Witness ==
    \E p \in Procs :
        /\ procs[p].pc = "done" /\ procs[p].op = "pickup" /\ procs[p].ok
        /\ procs[p].msg = "idempotent"
        /\ procs[p].id \in RentalsOfToken(procs[p].tok)
        /\ reservations[procs[p].r] # None
        /\ reservations[procs[p].r].status # "approved"

\* vehicle statuses under which a vehicle must not be handed over
NotRoadworthy == {"maintenance_due", "out_of_service"}

\* C30: a pickup creates no Rental while the reservation's vehicle is due
\* for maintenance or out of service.
C30_NoPickupOfUnfitVehicle ==
    [][Len(rentals') > Len(rentals) =>
          vehicles[rentals'[Len(rentals')].vehicle_id] \notin NotRoadworthy]_vars

\* C30 witness: a pickup has just created a Rental for a vehicle that is out
\* of service.
C30_Witness ==
    \E p \in Procs :
        /\ procs[p].pc = "done" /\ procs[p].op = "pickup" /\ procs[p].ok
        /\ procs[p].msg # "idempotent"
        /\ procs[p].id \in RentalSet
        /\ vehicles[rentals[procs[p].id].vehicle_id] = "out_of_service"

\* the messages of one type published for rental k
Published(event_type, k) ==
    {i \in DOMAIN outbox : outbox[i].event_type = event_type /\ outbox[i].data = k}

\* C31: every successful pickup that created a Rental is followed by exactly
\* one pickup-completed event for that Rental and every successful return by
\* exactly one return-completed event; no more than one of either is ever
\* published for a Rental, and none for a Rental that was not created or
\* not returned.
C31_EventsPublished ==
    /\ \A k \in RentalIds :
          (k \in RentalSet) ~> (Cardinality(Published("rental.pickup_completed", k)) = 1)
    /\ \A k \in RentalIds :
          (k \in RentalSet /\ rentals[k].status = "completed")
              ~> (Cardinality(Published("rental.return_completed", k)) = 1)
    /\ [](\A k \in RentalIds :
            /\ Cardinality(Published("rental.pickup_completed", k)) <= 1
            /\ Cardinality(Published("rental.return_completed", k)) <= 1
            /\ Published("rental.pickup_completed", k) # {} => k \in RentalSet
            /\ Published("rental.return_completed", k) # {} =>
                  (k \in RentalSet /\ rentals[k].status = "completed"))

\* C31 witness: a pickup has created a Rental, its response is out, and no
\* message has been published.
C31_Witness ==
    \E p \in Procs : FreshPickupDone(p) /\ procs[p].id \in RentalSet /\ outbox = <<>>

\* C32: two price computations on the same rates, dates and strategy give
\* the same outcome (the same price or the same rejection) whatever the
\* wall-clock day of each.
C32_PriceDeterministic ==
    Len(calc.outcomes) = 2 => calc.outcomes[1] = calc.outcomes[2]

\* C32 witness: the pricing context has priced a reservation on one day and
\* rejected the same inputs on another.
C32_Witness ==
    /\ calc.path = "context"
    /\ Len(calc.outcomes) = 2
    /\ calc.outcomes[1].ok
    /\ ~calc.outcomes[2].ok

\* C33: every stored reservation's rental_days is its return date minus its
\* pickup date in days, also after updates and after a rental extension.
C33_RentalDaysMatchDates ==
    \A r \in Stored :
        reservations[r].rental_days =
            reservations[r].return_date.day - reservations[r].pickup_date.day

\* C33 witness: an extension has moved a picked-up reservation's return
\* date and its rental_days still counts the days to the old return date.
C33_Witness ==
    \E k \in RentalSet :
        /\ rentals[k].status = "active"
        /\ ReservationOf(k).return_date = DateTime(MaxDay)
        /\ ReservationOf(k).pickup_date.kind = "str"
        /\ ReservationOf(k).rental_days <
              ReservationOf(k).return_date.day - ReservationOf(k).pickup_date.day

\* C34: every stored reservation has return_date >= pickup_date: no create
\* and no update, with both dates or with one date combined with the stored
\* other one, leaves a reservation whose return is before its pickup.
C34_ReturnNotBeforePickup ==
    \A r \in Stored :
        reservations[r].return_date.day >= reservations[r].pickup_date.day

\* C34 witness: a reservation created for the first day has been moved by
\* an update to a one-day period on the last day, so an update carrying
\* only a return date before it would invert the period.
C34_Witness ==
    \E r \in Stored :
        /\ reservations[r].pickup_date = DateTime(MaxDay)
        /\ reservations[r].return_date = DateTime(MaxDay)
        /\ reservations[r].status = "pending"

\* C35: a payment of reservation r by method m that is executed sets the
\* invoice to completed when the method's process_payment step reported
\* success and to failed otherwise, and a payment of an invoice that is not
\* pending changes nothing.
C35_TruthfulPayment ==
    [][\A r \in ResIds, m \in PaymentMethods :
          process_payment(r, m) =>
              IF PaymentAccepted(r)
              THEN reservations'[r].invoice.status =
                       IF PaymentInterface_process_payment(m) THEN "completed" ELSE "failed"
              ELSE reservations' = reservations]_vars

\* C36: on the same readings, reservation dates and damage charge the
\* entity's complete_return and the service's charge calculation give the
\* same late fee, mileage fee, fuel fee, damage fee and total.
C36_CalculatorsAgree ==
    (calc.charges # None /\ calc.entity # None) =>
        /\ calc.entity.late_fee = calc.charges.late_fee
        /\ calc.entity.mileage_overage_fee = calc.charges.mileage_overage_fee
        /\ calc.entity.fuel_refill_fee = calc.charges.fuel_refill_fee
        /\ calc.entity.damage_fee = calc.charges.damage_fee
        /\ ChargesTotal(calc.entity) = ChargesTotal(calc.charges)

\* C36 witness: both calculators have run on a same-day reservation
\* returned two hours after pickup, and only the entity charges a late fee.
C36_Witness ==
    /\ calc.charges # None /\ calc.entity # None
    /\ calc.rd = 0 /\ calc.ts = 7200
    /\ calc.charges.late_fee = 0
    /\ calc.entity.late_fee > 0

\* C37: every Rental's reservation_id refers to a reservation that is still
\* in the store, so a reservation with a Rental is never deleted.
C37_RentalHasReservation ==
    \A k \in RentalSet : reservations[rentals[k].reservation_id] # None

\* C37 witness: a return of an active Rental has been refused because the
\* reservation it refers to is gone.
C37_Witness ==
    \E p \in Procs :
        /\ procs[p].pc = "done" /\ procs[p].op = "return" /\ ~procs[p].ok
        /\ procs[p].k \in RentalSet
        /\ rentals[procs[p].k].status = "active"
        /\ reservations[rentals[procs[p].k].reservation_id] = None

\* a stored reservation whose total is its base price with the first-order
\* discount (15%) taken off
FirstOrderPriced(doc) ==
    /\ doc.rental_days > 0
    /\ doc.total_price =
           apply_discount(DailyRate(doc) * doc.rental_days, DiscountPct("first_order"))

\* C38: over creations, cancellations, updates and deletions, concurrent
\* creations included, at most one reservation of a customer is ever priced
\* with the first-order discount: a step that stores a new reservation at
\* the first-order price, or brings a stored one to it, happens only while
\* no reservation was ever issued to the customer (every reservation here
\* is customer c1's).
C38_FirstOrderOnce ==
    [][\A r \in ResIds :
          /\ (reservations[r] = None /\ reservations'[r] # None
                /\ FirstOrderPriced(reservations'[r])) => issued = {}
          /\ (reservations[r] # None /\ reservations'[r] # None
                /\ ~FirstOrderPriced(reservations[r]))
                 => ~FirstOrderPriced(reservations'[r])]_vars

\* C38 witness: the customer's first reservation was deleted and the
\* second one is stored at the first-order price.
C38_Witness ==
    /\ issued = {1, 2}
    /\ reservations[1] = None
    /\ reservations[2] # None
    /\ reservations[2].customer_id = "c1"
    /\ FirstOrderPriced(reservations[2])

\* C39: whenever a pickup request for reservation r succeeds, the Rental
\* it returns has reservation_id = r; a token already used by another
\* reservation's Rental never makes that Rental the answer for r.
C39_PickupReturnsOwnRental ==
    \A p \in Procs :
        PickupSucceeded(p) =>
            /\ procs[p].id \in RentalSet
            /\ rentals[procs[p].id].reservation_id = procs[p].r

\* C39 witness: a pickup of the approved reservation 2 carrying the token
\* of reservation 1's Rental has answered success with that Rental.
C39_Witness ==
    \E p \in Procs :
        /\ PickupSucceeded(p)
        /\ procs[p].r = 2
        /\ reservations[2] # None
        /\ reservations[2].status = "approved"
        /\ procs[p].id \in RentalSet
        /\ rentals[procs[p].id].reservation_id = 1

\* C40: once a reservation's invoice is completed (paid), no step changes
\* the invoice's total_price: a later update of the reservation's vehicle or
\* dates leaves the amount of a paid invoice as it was.
C40_PaidInvoiceFrozen ==
    [][\A r \in ResIds :
          (reservations[r] # None /\ reservations'[r] # None
             /\ reservations[r].invoice.status = "completed")
              => reservations'[r].invoice.total_price =
                     reservations[r].invoice.total_price]_vars

====
